---- MODULE Spec2Model ----
(***************************************************************************)
(* rsi_wilder (src/Rsicvs.py, lines 16-76): RSI by Wilder's smoothing with *)
(* an SMA seed, executed statement group by statement group.               *)
(*                                                                         *)
(* Numbers.  The code computes in binary floating point (float64), every   *)
(* operation rounded to nearest, ties to even.  The model keeps that       *)
(* arithmetic and scales the significand down to Prec bits (float64: 53);  *)
(* the exponent range is not bounded, so overflow and underflow are not    *)
(* modelled.  A value is <<kind, m, e>>: kind "num" stands for m * 2^e     *)
(* with m = 0, e = 0 or m odd and |m| < 2^Prec; kind "nan" is NaN, which   *)
(* pandas also uses for a missing price; kind "inf" is +-infinity          *)
(* (m = 1 or -1).  The sign of zero is not modelled (no comparison or      *)
(* result of the code depends on it).                                      *)
(***************************************************************************)
EXTENDS Integers, Sequences, FiniteSets, TLC

\* ------------------------------------------------------------------ bounds
Prec == 5
MaxLen == 5
MaxPeriod == 3


\* ------------------------------------------------- floating-point helpers
NaN == <<"nan", 0, 0>>
Zero == <<"num", 0, 0>>
Inf(s) == <<"inf", s, 0>>

IsNaN(x) == x[1] = "nan"
IsNum(x) == x[1] = "num"
IsInf(x) == x[1] = "inf"

Abs(k) == IF k < 0 THEN 0 - k ELSE k
Sign(k) == IF k < 0 THEN 0 - 1 ELSE IF k > 0 THEN 1 ELSE 0

RECURSIVE Pow2(_)
Pow2(k) == IF k <= 0 THEN 1 ELSE 2 * Pow2(k - 1)

RECURSIVE BitLen(_)
BitLen(a) == IF a = 0 THEN 0 ELSE 1 + BitLen(a \div 2)

\* canonical form of m * 2^e for m that fits the significand
RECURSIVE Norm(_, _)
Norm(m, e) ==
    IF m = 0 THEN Zero
    ELSE IF m % 2 = 0 THEN Norm(m \div 2, e + 1)
    ELSE <<"num", m, e>>

\* m * 2^e rounded to Prec significant bits, to nearest, ties to even
Round(m, e) ==
    LET a == Abs(m)
        s == BitLen(a) - Prec
    IN  IF s <= 0 THEN Norm(m, e)
        ELSE LET q == a \div Pow2(s)
                 r == a % Pow2(s)
                 half == Pow2(s - 1)
                 up == IF r > half \/ (r = half /\ q % 2 = 1) THEN 1 ELSE 0
             IN  Norm(Sign(m) * (q + up), e + s)

\* int -> float (prices.astype(float), the literals 100.0, 1.0, 0.0)
FromInt(k) == Round(k, 0)

Hundred == FromInt(100)
One == FromInt(1)

FNeg(x) == IF IsNaN(x) THEN NaN ELSE <<x[1], 0 - x[2], x[3]>>

FAdd(x, y) ==
    IF IsNaN(x) \/ IsNaN(y) THEN NaN
    ELSE IF IsInf(x) /\ IsInf(y) THEN (IF x[2] = y[2] THEN x ELSE NaN)
    ELSE IF IsInf(x) THEN x
    ELSE IF IsInf(y) THEN y
    ELSE IF x[2] = 0 THEN y
    ELSE IF y[2] = 0 THEN x
    ELSE LET e == IF x[3] < y[3] THEN x[3] ELSE y[3]
         IN  Round(x[2] * Pow2(x[3] - e) + y[2] * Pow2(y[3] - e), e)

FSub(x, y) == FAdd(x, FNeg(y))

FMul(x, y) ==
    IF IsNaN(x) \/ IsNaN(y) THEN NaN
    ELSE IF IsInf(x) \/ IsInf(y)
         THEN (IF x[2] = 0 \/ y[2] = 0 THEN NaN ELSE Inf(Sign(x[2]) * Sign(y[2])))
    ELSE Round(x[2] * y[2], x[3] + y[3])

\* numpy float64 division: x/0 is NaN for x = 0 or NaN and +-inf otherwise
FDiv(x, y) ==
    IF IsNaN(x) \/ IsNaN(y) THEN NaN
    ELSE IF IsInf(x) THEN (IF IsInf(y) THEN NaN
                           ELSE Inf(x[2] * (IF y[2] < 0 THEN 0 - 1 ELSE 1)))
    ELSE IF IsInf(y) THEN Zero
    ELSE IF y[2] = 0 THEN (IF x[2] = 0 THEN NaN ELSE Inf(Sign(x[2])))
    ELSE IF x[2] = 0 THEN Zero
    ELSE LET k == 2 * Prec
             n == Abs(x[2]) * Pow2(k)
             d == Abs(y[2])
             q == n \div d
             sticky == IF n % d = 0 THEN 0 ELSE 1
         IN  Round(Sign(x[2]) * Sign(y[2]) * (2 * q + sticky), x[3] - y[3] - k - 1)

\* x < y; false when either side is NaN
FLess(x, y) ==
    IF IsNaN(x) \/ IsNaN(y) THEN FALSE
    ELSE IF IsInf(x) THEN x[2] < 0 /\ x # y
    ELSE IF IsInf(y) THEN y[2] > 0
    ELSE LET e == IF x[3] < y[3] THEN x[3] ELSE y[3]
         IN  x[2] * Pow2(x[3] - e) < y[2] * Pow2(y[3] - e)

FLeq(x, y) == ~IsNaN(x) /\ ~IsNaN(y) /\ ~FLess(y, x)

\* x == 0.0
FIsZero(x) == IsNum(x) /\ x[2] = 0

\* raw prices offered as input, before prices.astype(float): three
\* neighbouring prices and one far away (2^(Prec+2), a float exactly)
RawPrices == {1, 2, 3, Pow2(Prec + 2)}

\* ------------------------------------------------ Python/numpy helpers
\* a[k] with Python's negative indexing: the 0-based position, valid or not
PyIndex(len, k) == IF k < 0 THEN len + k ELSE k

PyClamp(len, k) ==
    LET j == PyIndex(len, k)
    IN  IF j < 0 THEN 0 ELSE IF j > len THEN len ELSE j

\* a[lo:hi] on a 0-based array held in a 1-based sequence
PySlice(a, lo, hi) == SubSeq(a, PyClamp(Len(a), lo) + 1, PyClamp(Len(a), hi))

RECURSIVE FSum(_)
FSum(a) == IF a = <<>> THEN Zero ELSE FAdd(FSum(SubSeq(a, 1, Len(a) - 1)), a[Len(a)])

\* np.mean: the sum divided by the count (NaN for an empty slice)
Mean(a) == FDiv(FSum(a), FromInt(Len(a)))

\* np.full(len, np.nan)
AllNaN(len) == [k \in 1..len |-> NaN]

\* ---------------------------------------------------- pieces of rsi_wilder
\* a raw input cell: <<"int", k>> is the price k, <<"none">> a missing price
AsFloat(c) == IF c[1] = "none" THEN NaN ELSE FromInt(c[2])

\* positions (1-based, in the original index) of the prices dropna() keeps
RECURSIVE NoNaPositions(_)
NoNaPositions(s) ==
    IF s = <<>> THEN <<>>
    ELSE LET rest == NoNaPositions(SubSeq(s, 1, Len(s) - 1))
         IN  IF IsNaN(s[Len(s)]) THEN rest ELSE Append(rest, Len(s))

DropNa(s) == [k \in 1..Len(NoNaPositions(s)) |-> s[NoNaPositions(s)[k]]]

\* mutant: the result indexed by the filtered series
ResultInitFiltered(raw) == AllNaN(Cardinality({k \in 1..Len(raw) : raw[k][1] = "int"}))

\* pd.Series(index=orig_index, data=np.nan)
ResultInit(raw) == AllNaN(Len(raw))

\* mutant: the early return taken for n < period only
InsufficientHistoryStrict(len, p) == len < p

InsufficientHistory(len, p) == len <= p

\* Series.diff(): NaN first, then price[k] - price[k-1]
Diff(s) == [k \in 1..Len(s) |-> IF k = 1 THEN NaN ELSE FSub(s[k], s[k - 1])]

\* mutant: the gain taken as the magnitude of the delta
AbsDelta(d) == IF IsNaN(d) THEN NaN ELSE IF FLess(d, Zero) THEN FNeg(d) ELSE d

\* delta.clip(lower=0), delta.clip(upper=0); NaN stays NaN
ClipLower0(d) == IF IsNaN(d) THEN NaN ELSE IF FLess(d, Zero) THEN Zero ELSE d
ClipUpper0(d) == IF IsNaN(d) THEN NaN ELSE IF FLess(Zero, d) THEN Zero ELSE d

\* mutant: the loss left negative (the negation dropped)
LossNotNegated(delta) == [k \in 1..Len(delta) |-> ClipUpper0(delta[k])]

Gain(delta) == [k \in 1..Len(delta) |-> ClipLower0(delta[k])]
Loss(delta) == [k \in 1..Len(delta) |-> FNeg(ClipUpper0(delta[k]))]

\* mutant: no guard on avg_loss == 0
RsiValueUnguarded(ag, al) ==
    FSub(Hundred, FDiv(Hundred, FAdd(One, FDiv(ag, al))))

\* lines 53-57 and 65-69
RsiValue(ag, al) ==
    IF FIsZero(al) THEN Hundred
    ELSE LET rs == FDiv(ag, al)
         IN  FSub(Hundred, FDiv(Hundred, FAdd(One, rs)))

\* mutant: the standard EMA weight 2/(p+1) in place of Wilder's 1/p
SmoothEMA(avg, x, p) ==
    FDiv(FAdd(FMul(avg, FromInt(p - 1)), FMul(FromInt(2), x)), FromInt(p + 1))

\* mutant: the previous average kept whole (weight p in place of p-1)
SmoothNoDecay(avg, x, p) == FDiv(FAdd(FMul(avg, FromInt(p)), x), FromInt(p))

\* mutant: the previous average weighted p-2
SmoothFastDecay(avg, x, p) == FDiv(FAdd(FMul(avg, FromInt(p - 2)), x), FromInt(p))

\* lines 62, 63
WilderSmooth(avg, x, p) == FDiv(FAdd(FMul(avg, FromInt(p - 1)), x), FromInt(p))

\* mutant: the recurrence starts one position late
LoopStartLate(p) == p + 2

\* range(period + 1, len(gain_vals)) starts here
LoopStart(p) == p + 1

\* lines 60, 61
NanToZero(x) == IF ~IsNaN(x) THEN x ELSE Zero

\* ------------------------------------------------------------------ state
VARIABLES prices, period, pc, prices_no_na, no_na_index, n, result,
          gain_vals, loss_vals, rsi_vals, avg_gain, avg_loss, i

vars == <<prices, period, pc, prices_no_na, no_na_index, n, result,
          gain_vals, loss_vals, rsi_vals, avg_gain, avg_loss, i>>

Cells == {<<"int", k>> : k \in RawPrices} \cup {<<"none">>}
Inputs == UNION {[1..len -> Cells] : len \in 0..MaxLen}
Periods == (0 - 1)..MaxPeriod

Init ==
    /\ prices \in Inputs
    /\ period \in Periods
    /\ pc = "start"
    /\ prices_no_na = <<>>
    /\ no_na_index = <<>>
    /\ n = 0
    /\ result = <<>>
    /\ gain_vals = <<>>
    /\ loss_vals = <<>>
    /\ rsi_vals = <<>>
    /\ avg_gain = NaN
    /\ avg_loss = NaN
    /\ i = 0

\* lines 27-36
Filter ==
    /\ pc = "start"
    /\ LET numeric == [k \in 1..Len(prices) |-> AsFloat(prices[k])]
       IN  /\ prices_no_na' = DropNa(numeric)
           /\ no_na_index' = NoNaPositions(numeric)
           /\ n' = Len(DropNa(numeric))
           /\ result' = ResultInit(prices)
           /\ pc' = IF InsufficientHistory(Len(DropNa(numeric)), period)
                    THEN "done" ELSE "diff"
    /\ UNCHANGED <<prices, period, gain_vals, loss_vals, rsi_vals,
                   avg_gain, avg_loss, i>>

\* lines 38-45
Deltas ==
    /\ pc = "diff"
    /\ gain_vals' = Gain(Diff(prices_no_na))
    /\ loss_vals' = Loss(Diff(prices_no_na))
    /\ rsi_vals' = AllNaN(Len(prices_no_na))
    /\ pc' = "seed"
    /\ UNCHANGED <<prices, period, prices_no_na, no_na_index, n, result,
                   avg_gain, avg_loss, i>>

\* lines 47-57; rsi_vals[period] raises IndexError when out of range
Seed ==
    /\ pc = "seed"
    /\ avg_gain' = Mean(PySlice(gain_vals, 1, period + 1))
    /\ avg_loss' = Mean(PySlice(loss_vals, 1, period + 1))
    /\ LET at == PyIndex(Len(rsi_vals), period)
       IN  IF at < 0 \/ at >= Len(rsi_vals)
           THEN /\ pc' = "IndexError"
                /\ UNCHANGED <<rsi_vals, i>>
           ELSE /\ rsi_vals' = [rsi_vals EXCEPT ![at + 1] = RsiValue(avg_gain', avg_loss')]
                /\ i' = LoopStart(period)
                /\ pc' = "loop"
    /\ UNCHANGED <<prices, period, prices_no_na, no_na_index, n, result,
                   gain_vals, loss_vals>>

\* lines 59-69, one iteration (i >= 0 here, as period >= -1)
LoopStep ==
    /\ pc = "loop"
    /\ i < Len(gain_vals)
    /\ LET g == NanToZero(gain_vals[i + 1])
           l == NanToZero(loss_vals[i + 1])
       IN  /\ avg_gain' = WilderSmooth(avg_gain, g, period)
           /\ avg_loss' = WilderSmooth(avg_loss, l, period)
           /\ rsi_vals' = [rsi_vals EXCEPT ![i + 1] = RsiValue(avg_gain', avg_loss')]
    /\ i' = i + 1
    /\ pc' = "loop"
    /\ UNCHANGED <<prices, period, prices_no_na, no_na_index, n, result,
                   gain_vals, loss_vals>>

\* lines 71-76: the values go back to their places in the original index
Scatter(res, idx, vals) ==
    [k \in 1..Len(res) |->
        IF \E j \in 1..Len(idx) : idx[j] = k
        THEN vals[CHOOSE j \in 1..Len(idx) : idx[j] = k]
        ELSE res[k]]

Return ==
    /\ pc = "loop"
    /\ i >= Len(gain_vals)
    /\ result' = Scatter(result, no_na_index, rsi_vals)
    /\ pc' = "done"
    /\ UNCHANGED <<prices, period, prices_no_na, no_na_index, n,
                   gain_vals, loss_vals, rsi_vals, avg_gain, avg_loss, i>>

Next == Filter \/ Deltas \/ Seed \/ LoopStep \/ Return

Spec == Init /\ [][Next]_vars

\* ------------------------------------------------- vocabulary of claims
\* the input seen as the claims see it: available prices and their rank
IsAvail(k) == prices[k][1] = "int"
NAvail == Cardinality({k \in 1..Len(prices) : IsAvail(k)})
\* 0-based position of bar k counted over available prices
Rank(k) == Cardinality({m \in 1..(k - 1) : IsAvail(m)})
\* bar of the available price with 0-based rank j
BarOf(j) == CHOOSE k \in 1..Len(prices) : IsAvail(k) /\ Rank(k) = j
\* the available price of rank j, as a float
Price(j) == FromInt(prices[BarOf(j)][2])

Returned == pc = "done"

\* ---------------------------------------------------------------- claims
\* C1: for period >= 1 and n > period available prices, the returned RSI
\* is undefined (NaN) at the available prices of rank 0..period-1 and
\* defined at every available price of rank period..n-1; the call
\* raises nothing.
THM_C1 ==
    (period >= 1 /\ NAvail > period) =>
        /\ pc # "IndexError"
        /\ Returned =>
              \A k \in 1..Len(prices) :
                  IsAvail(k) =>
                      /\ Rank(k) < period => IsNaN(result[k])
                      /\ Rank(k) >= period => IsNum(result[k])

\* a missing price sits inside the warm-up bars and the loop has run
WIT_C1 ==
    /\ Returned
    /\ period >= 2
    /\ NAvail >= period + 2
    /\ \E k \in 1..Len(prices) : ~IsAvail(k) /\ k <= period

\* C2: for period >= 1 and at most period available prices the result is
\* all undefined, nothing is raised, and neither the seed nor the
\* recurrence is ever executed.
THM_C2 ==
    (period >= 1 /\ NAvail <= period) =>
        /\ pc \in {"start", "done"}
        /\ IsNaN(avg_gain) /\ IsNaN(avg_loss)
        /\ gain_vals = <<>> /\ rsi_vals = <<>>
        /\ Returned => \A k \in 1..Len(result) : IsNaN(result[k])

\* exactly period available prices (the boundary) and a missing one
WIT_C2 ==
    /\ Returned
    /\ period >= 1
    /\ NAvail = period
    /\ Len(prices) > NAvail
    /\ Len(result) = Len(prices)

\* C8 as stated: the returned series has as many entries as there are
\* non-missing prices in the input (here for valid periods).
CEX_C8 == (Returned /\ period >= 1) => Len(result) = NAvail

\* C8 amended: the returned series has as many entries as the input,
\* missing prices included, and is undefined at every missing price.
THM_C8 ==
    Returned =>
        /\ Len(result) = Len(prices)
        /\ \A k \in 1..Len(prices) : ~IsAvail(k) => IsNaN(result[k])

\* an input with a missing price whose RSI is computed
WIT_C8 ==
    /\ Returned
    /\ period >= 1
    /\ NAvail > period
    /\ Len(prices) > NAvail
    /\ \E k \in 1..Len(result) : IsNum(result[k])

\* The Wilder reference, over the available prices by rank.
RefGain(j) ==
    LET d == FSub(Price(j), Price(j - 1)) IN IF FLess(Zero, d) THEN d ELSE Zero
RefLoss(j) ==
    LET d == FSub(Price(j - 1), Price(j)) IN IF FLess(Zero, d) THEN d ELSE Zero

RECURSIVE RefAvgGain(_)
RefAvgGain(j) ==
    IF j = period
    THEN FDiv(FSum([k \in 1..period |-> RefGain(k)]), FromInt(period))
    ELSE FDiv(FAdd(FMul(RefAvgGain(j - 1), FromInt(period - 1)), RefGain(j)),
              FromInt(period))

RECURSIVE RefAvgLoss(_)
RefAvgLoss(j) ==
    IF j = period
    THEN FDiv(FSum([k \in 1..period |-> RefLoss(k)]), FromInt(period))
    ELSE FDiv(FAdd(FMul(RefAvgLoss(j - 1), FromInt(period - 1)), RefLoss(j)),
              FromInt(period))

RefRsi(j) ==
    FSub(Hundred, FDiv(Hundred, FAdd(One, FDiv(RefAvgGain(j), RefAvgLoss(j)))))

\* C3: every defined value equals the Wilder reference: SMA seed of the
\* clipped deltas 1..period at rank period, the recurrence on the previous
\* smoothed averages after it, RSI = 100 - 100/(1 + avg_gain/avg_loss)
\* when avg_loss is nonzero; period+1 prices give exactly one defined
\* value, at the last price.
THM_C3 ==
    (period >= 1 /\ NAvail > period) =>
        /\ pc = "loop" =>
              /\ avg_gain = RefAvgGain(i - 1)
              /\ avg_loss = RefAvgLoss(i - 1)
        /\ Returned =>
              /\ \A j \in period..(NAvail - 1) :
                    ~FIsZero(RefAvgLoss(j)) => result[BarOf(j)] = RefRsi(j)
              /\ NAvail = period + 1 =>
                    {k \in 1..Len(result) : ~IsNaN(result[k])} = {BarOf(period)}

\* two recurrence steps behind, gains and losses both present
WIT_C3 ==
    /\ Returned
    /\ period >= 2
    /\ NAvail >= period + 3
    /\ LET v == result[BarOf(NAvail - 1)]
       IN  IsNum(v) /\ FLess(Zero, v) /\ FLess(v, Hundred)

\* C4: for period >= 1 every defined RSI value lies in [0, 100], and the
\* smoothed averages are never negative.
THM_C4 ==
    period >= 1 =>
        /\ \A k \in 1..Len(rsi_vals) :
              IsNaN(rsi_vals[k]) \/ (FLeq(Zero, rsi_vals[k]) /\ FLeq(rsi_vals[k], Hundred))
        /\ \A k \in 1..Len(result) :
              IsNaN(result[k]) \/ (FLeq(Zero, result[k]) /\ FLeq(result[k], Hundred))
        /\ pc \in {"loop", "done"} /\ NAvail > period =>
              FLeq(Zero, avg_gain) /\ FLeq(Zero, avg_loss)

\* a value strictly inside the interval and the two extremes, in one result
WIT_C4 ==
    /\ Returned
    /\ period >= 1
    /\ \E k \in 1..Len(result) : FLess(Zero, result[k]) /\ FLess(result[k], Hundred)
    /\ \E k \in 1..Len(result) : result[k] = Zero
    /\ \E k \in 1..Len(result) : result[k] = Hundred

\* C5: a zero smoothed average loss gives exactly 100 at that position,
\* also when the average gain is zero; so a series that never falls
\* (flat, or increasing) has RSI 100 at every defined position.
NeverFalls == \A j \in 1..(NAvail - 1) : ~FLess(Price(j), Price(j - 1))
Flat == \A j \in 1..(NAvail - 1) : Price(j) = Price(j - 1)

THM_C5 ==
    (period >= 1 /\ NAvail > period) =>
        /\ (pc = "loop" /\ FIsZero(avg_loss)) => rsi_vals[i] = Hundred
        /\ (Returned /\ NeverFalls) =>
              \A j \in period..(NAvail - 1) : result[BarOf(j)] = Hundred

\* a flat series, both averages zero, past the seed
WIT_C5 ==
    /\ Returned
    /\ period >= 2
    /\ NAvail >= period + 2
    /\ Flat
    /\ FIsZero(avg_gain) /\ FIsZero(avg_loss)
    /\ result[BarOf(NAvail - 1)] = Hundred

\* C6: for period >= 1 and a series of more than period prices in which
\* every price is below the one before, RSI is exactly 0 from rank period on.
AlwaysFalls == \A j \in 1..(NAvail - 1) : FLess(Price(j), Price(j - 1))

THM_C6 ==
    (Returned /\ period >= 1 /\ NAvail > period /\ AlwaysFalls) =>
        \A j \in period..(NAvail - 1) : result[BarOf(j)] = Zero

WIT_C6 ==
    /\ Returned
    /\ period >= 2
    /\ NAvail >= period + 2
    /\ AlwaysFalls
    /\ result[BarOf(NAvail - 1)] = Zero

\* C9: with period = 1 and at least two prices, RSI is defined from rank 1
\* on and is 0 where the price fell from the previous one, 100 elsewhere.
THM_C9 ==
    (Returned /\ period = 1 /\ NAvail >= 2) =>
        \A j \in 1..(NAvail - 1) :
            result[BarOf(j)] = IF FLess(Price(j), Price(j - 1)) THEN Zero ELSE Hundred

\* a fall followed by a flat bar and a rise followed by a fall
WIT_C9 ==
    /\ Returned
    /\ period = 1
    /\ NAvail >= 4
    /\ \E j \in 2..(NAvail - 1) :
          FLess(Price(j - 1), Price(j - 2)) /\ Price(j) = Price(j - 1)
    /\ \E j \in 2..(NAvail - 1) :
          FLess(Price(j - 2), Price(j - 1)) /\ FLess(Price(j), Price(j - 1))

\* C7: a call with period < 1 is rejected with a defined error before any
\* computation, and never returns a result series.  (A rejection would
\* leave the call at "start" or end it in "InvalidPeriod".)
CEX_C7 == period < 1 => pc \in {"start", "InvalidPeriod"}

\* C10 as stated: for period >= 2, once a smoothed average is strictly
\* positive at a defined position it is strictly positive at the next one,
\* and the RSI there is not exactly 100 (after a positive avg_loss), not
\* exactly 0 (after a positive avg_gain).
RecurrenceStep == pc = "loop" /\ pc' = "loop" /\ i' = i + 1 /\ period >= 2

CEX_C10 ==
    [][RecurrenceStep =>
          /\ FLess(Zero, avg_loss) =>
                FLess(Zero, avg_loss') /\ rsi_vals'[i + 1] # Hundred
          /\ FLess(Zero, avg_gain) =>
                FLess(Zero, avg_gain') /\ rsi_vals'[i + 1] # Zero]_vars

\* C10 amended: for period >= 2, once a smoothed average is strictly
\* positive at a defined position it is strictly positive at every later
\* one (short of floating-point underflow); the rounded RSI may still be
\* exactly 100 or exactly 0 there.
THM_C10 ==
    [][RecurrenceStep =>
          /\ FLess(Zero, avg_loss) => FLess(Zero, avg_loss')
          /\ FLess(Zero, avg_gain) => FLess(Zero, avg_gain')]_vars

\* after a fall the recurrence has run over a bar with no loss: avg_loss
\* is still positive, and the RSI written there is exactly 100
WIT_C10 ==
    /\ pc = "loop"
    /\ period >= 2
    /\ i >= period + 2
    /\ FIsZero(loss_vals[i])
    /\ FLess(Zero, avg_loss)
    /\ rsi_vals[i] = Hundred

====
